---------------------------- MODULE Spec2Model ----------------------------
(***************************************************************************)
(* A model of the Ollama command-line helpers of src/ollama:               *)
(*   ocode.py              context sizer, directory aggregator, query      *)
(*                         client and main                                 *)
(*   large_context_test.py estimate_qwen_tokens                            *)
(*   ollama-lite.py        main (subprocess wrapper)                       *)
(* Each component has its own specification over its own variables; the    *)
(* variables of the other components stay at their idle values.            *)
(***************************************************************************)
EXTENDS Integers, Sequences, FiniteSets, TLC

(***************************************************************************)
(* Program constants (ocode.py, "Configuration").                          *)
(***************************************************************************)
MAX_CONTEXT_SIZE == 128000

TOKEN_BUFFER == 1000

CTX_FLOOR == 4096

(***************************************************************************)
(* Bounds of the model.                                                    *)
(***************************************************************************)
\* largest estimated prompt token count the sizer is run on
MaxTokenCount == 140000

\* how much longer the prompt of a later invocation may be
GrowSteps == {1, 3000}

Min(a, b) == IF a <= b THEN a ELSE b

Max(a, b) == IF a >= b THEN a ELSE b

(***************************************************************************)
(* The context sizer: ocode.py main, lines 401-405.                        *)
(***************************************************************************)
\* int.bit_length(): the bits of the absolute value
RECURSIVE BitLength(_)
BitLength(n) ==
    IF n = 0 THEN 0
    ELSE IF n < 0 THEN BitLength(-n)
    ELSE 1 + BitLength(n \div 2)

\* a clamp that wraps around instead of saturating
ClampToMax_Wraps(t) == (t + TOKEN_BUFFER) % MAX_CONTEXT_SIZE

\* dynamic_ctx_size = min(MAX_CONTEXT_SIZE, token_count + TOKEN_BUFFER)
ClampToMax(t) == Min(MAX_CONTEXT_SIZE, t + TOKEN_BUFFER)

\* the round-up with the "- 1" forgotten
RoundUpPow2_NoDecrement(n) == 2 ^ BitLength(n)

\* 2**int(dynamic_ctx_size - 1).bit_length()
RoundUpPow2(n) == 2 ^ BitLength(n - 1)

\* dynamic_ctx_size = max(4096, 2**int(dynamic_ctx_size - 1).bit_length())
DynamicCtxSize(t) == Max(CTX_FLOOR, RoundUpPow2(ClampToMax(t)))

(***************************************************************************)
(* Text.  A string is a sequence of one-character strings, so that the     *)
(* prefix, suffix and substring tests of should_ignore are computed.       *)
(***************************************************************************)
\* code points of the characters the model uses
Ord(c) ==
    CASE c = " " -> 32 [] c = "#" -> 35 [] c = "*" -> 42 [] c = "." -> 46
      [] c = "/" -> 47 [] c = "a" -> 97 [] c = "b" -> 98 [] c = "c" -> 99
      [] c = "g" -> 103 [] c = "z" -> 122

\* str.startswith
StartsWith(s, p) == Len(p) <= Len(s) /\ SubSeq(s, 1, Len(p)) = p

\* str.endswith
EndsWith(s, p) ==
    Len(p) <= Len(s) /\ SubSeq(s, Len(s) - Len(p) + 1, Len(s)) = p

\* p in s
Contains(s, p) ==
    \E i \in 0..(Len(s) - Len(p)) : SubSeq(s, i + 1, i + Len(p)) = p

\* str.strip() (of blanks)
RECURSIVE Strip(_)
Strip(s) ==
    IF s = <<>> THEN s
    ELSE IF Head(s) = " " THEN Strip(Tail(s))
    ELSE IF s[Len(s)] = " " THEN Strip(SubSeq(s, 1, Len(s) - 1))
    ELSE s

\* s < t in Python's string order
RECURSIVE StrLess(_, _)
StrLess(s, t) ==
    IF t = <<>> THEN FALSE
    ELSE IF s = <<>> THEN TRUE
    ELSE IF Head(s) = Head(t) THEN StrLess(Tail(s), Tail(t))
    ELSE Ord(Head(s)) < Ord(Head(t))

(***************************************************************************)
(* The file system below dir_path.  An entry is                            *)
(*   [path |-> <<name, ...>>, kind |-> "file" | "dir", size |-> bytes]     *)
(* with path relative to dir_path; the root itself is the path <<>>.       *)
(***************************************************************************)
File(path, size) == [path |-> path, kind |-> "file", size |-> size]

Dir(path) == [path |-> path, kind |-> "dir", size |-> 0]

\* Path.name
Name(path) == path[Len(path)]

\* str(path.relative_to(dir_path))
RECURSIVE RelPath(_)
RelPath(path) ==
    IF Len(path) = 1 THEN path[1]
    ELSE RelPath(SubSeq(path, 1, Len(path) - 1)) \o <<"/">> \o Name(path)

\* Path.suffix: from the last dot, unless the name starts or ends with it
RECURSIVE LastDot(_)
LastDot(name) ==
    IF name = <<>> THEN 0
    ELSE IF name[Len(name)] = "." THEN Len(name)
    ELSE LastDot(SubSeq(name, 1, Len(name) - 1))

Suffix(name) ==
    LET i == LastDot(name)
    IN  IF i > 1 /\ i < Len(name) THEN SubSeq(name, i, Len(name)) ELSE <<>>

\* the extensions of should_ignore that the model's names can carry
BinarySuffixes == { <<".", "g", "z">> }

MAX_FILE_SIZE == 1000000

\* current_dir.iterdir()
IterDir(tree, dir) ==
    { e \in tree : Len(e.path) = Len(dir) + 1
                   /\ SubSeq(e.path, 1, Len(dir)) = dir }

\* the sort key of line 137: (x.is_file(), x.name)
EntryBefore(e, f) ==
    \/ e.kind = "dir" /\ f.kind = "file"
    \/ e.kind = f.kind /\ StrLess(Name(e.path), Name(f.path))

\* sorted(..., key=...)
RECURSIVE Sorted(_)
Sorted(S) ==
    IF S = {} THEN <<>>
    ELSE LET m == CHOOSE e \in S : \A f \in S \ {e} : EntryBefore(e, f)
         IN  <<m>> \o Sorted(S \ {m})

(***************************************************************************)
(* get_directory_content: loading .gitignore and should_ignore.            *)
(***************************************************************************)
\* [line.strip() for line in f if line.strip() and not line.startswith('#')]
RECURSIVE LoadPatterns(_)
LoadPatterns(lines) ==
    IF lines = <<>> THEN <<>>
    ELSE LET l == Head(lines)
         IN  IF Strip(l) # <<>> /\ ~StartsWith(l, <<"#">>)
             THEN <<Strip(l)>> \o LoadPatterns(Tail(lines))
             ELSE LoadPatterns(Tail(lines))

\* a pattern test that forgets the '*' branch
PatternIgnores_NoStar(pattern, rel) ==
    \/ EndsWith(pattern, <<"/">>)
          /\ StartsWith(rel, SubSeq(pattern, 1, Len(pattern) - 1))
    \/ Contains(rel, pattern)

\* one round of the loop of lines 107-113
PatternIgnores(pattern, rel) ==
    \/ EndsWith(pattern, <<"/">>)
          /\ StartsWith(rel, SubSeq(pattern, 1, Len(pattern) - 1))
    \/ StartsWith(pattern, <<"*">>)
          /\ EndsWith(rel, SubSeq(pattern, 2, Len(pattern)))
    \/ Contains(rel, pattern)

\* path.name.startswith('.')
IsHidden(path) == Head(Name(path)) = "."

\* should_ignore(path), lines 100-122
ShouldIgnore(e, patterns) ==
    \/ IsHidden(e.path)
    \/ \E i \in 1..Len(patterns) : PatternIgnores(patterns[i], RelPath(e.path))
    \/ e.kind = "file"
          /\ (Suffix(Name(e.path)) \in BinarySuffixes \/ e.size > MAX_FILE_SIZE)

(***************************************************************************)
(* The directory trees, ignore files and read faults the walk is run on.   *)
(***************************************************************************)
\* deepest chain of nested directories a/a/.../a in a tree
MaxChain == 4

\* largest --max-depth and --max-files the walk is run with
MaxDepthArg == 3

MaxFilesArg == 3

A == <<"a">>

B == <<"b">>

C == <<"c">>

\* the path a/a/.../a of n names
RECURSIVE Chain(_)
Chain(n) == IF n = 0 THEN <<>> ELSE Chain(n - 1) \o <<A>>

\* the directories a, a/a, ... down to depth n, with a file c in each
ChainTree(n) ==
    { Dir(Chain(k)) : k \in 1..n } \cup { File(Chain(k) \o <<C>>, 10) : k \in 1..n }

\* what a tree may hold besides the chain
SecondDir == { Dir(<<B>>), File(<<B, B>>, 10) }

HiddenFile == { File(<< <<".", "a">> >>, 10) }

RootFile == { File(<< <<"a", "b">> >>, 10) }

Skipped ==
    { Dir(<< <<".", "b">> >>), File(<< <<".", "b">>, A >>, 10),
      File(<< <<"c", ".", "g", "z">> >>, 10), File(<<C>>, 2000000) }

Trees ==
    { ChainTree(n) \cup UNION X : n \in 0..MaxChain,
                                 X \in SUBSET {SecondDir, HiddenFile, RootFile, Skipped} }

\* the project's .gitignore: absent (or no git root), unreadable, or its lines
Gitignores ==
    { [state |-> "absent", lines |-> <<>>],
      [state |-> "unreadable", lines |-> <<>>],
      [state |-> "present", lines |-> << <<"#", " ", "c">>, <<>>, <<"a", "/", "a", " ">> >>],
      [state |-> "present", lines |-> << <<"*", "b">> >>],
      [state |-> "present", lines |-> << <<"b", "/">> >>],
      [state |-> "present", lines |-> << <<"a", "/", "c">>, <<"b", "/", "b">> >>] }

\* the paths whose read fails: iterdir() of a directory, open() of a file
Unreadables == { {}, {<<A>>}, {<<B>>, << <<"a", "b">> >>} }

\* the files whose bytes are not UTF-8
Undecodable == { <<B, B>> }

(***************************************************************************)
(* ocode.py main and the query client: inputs and pure parts.              *)
(***************************************************************************)
\* most lines a streamed answer has in the model
MaxLines == 3

\* the estimates count_tokens returns for the prompts main is run on
TokenSamples == {0, 5000, 127000}

\* what the target path is on disk
TargetKinds == {"missing", "file", "dir", "other"}

\* lines 380-395: "fail" (return 1) or "read" (the content is read)
TargetCheck_NoExistsTest(kind) == IF kind = "other" THEN "fail" ELSE "read"

TargetCheck(kind) ==
    IF kind = "missing" THEN "fail"
    ELSE IF kind \in {"file", "dir"} THEN "read"
    ELSE "fail"

\* What a request meets: raised (no answer: a network error), or an answer
\* with its status; json tells whether response.json() parses, listed
\* whether the answer to /tags names DEFAULT_MODEL, has_response whether
\* the JSON object holds a "response" field.
Answer(raised, status, json, listed, has_response) ==
    [raised |-> raised, status |-> status, json |-> json, listed |-> listed,
     has_response |-> has_response]

NetworkError == Answer(TRUE, 0, FALSE, FALSE, FALSE)

Statuses == {200, 404, 500}

\* the answers a GET /version, a GET /tags and a POST /generate can meet
VersionAnswers ==
    {NetworkError} \cup
    { Answer(FALSE, st, j, FALSE, FALSE) : st \in Statuses, j \in BOOLEAN }

TagsAnswers ==
    {NetworkError} \cup
    { Answer(FALSE, st, j, l, FALSE) : st \in Statuses, j \in BOOLEAN, l \in BOOLEAN }

GenerateAnswers ==
    {NetworkError} \cup
    { Answer(FALSE, st, j, FALSE, h) : st \in Statuses, j \in BOOLEAN, h \in BOOLEAN }

\* one item of standard output
Out(tag, code, text) == [tag |-> tag, code |-> code, text |-> text]

Say(tag) == Out(tag, 0, "")

\* check_ollama_status step 1, lines 172-185: "pass" or the message logged
VersionOutcome(r) ==
    IF r.raised THEN "version_error"
    ELSE IF r.status = 200
    THEN (IF r.json THEN "pass" ELSE "version_error")
    ELSE "version_bad_status"

\* step 2 without the test that the model is listed
TagsOutcome_NoModelTest(r) ==
    IF r.raised THEN "tags_error"
    ELSE IF r.status = 200
    THEN (IF r.json THEN "pass" ELSE "tags_error")
    ELSE "tags_bad_status"

\* step 2, lines 188-209
TagsOutcome(r) ==
    IF r.raised THEN "tags_error"
    ELSE IF r.status = 200
    THEN (IF ~r.json THEN "tags_error"
          ELSE IF r.listed THEN "pass" ELSE "model_missing")
    ELSE "tags_bad_status"

\* step 3, lines 212-228
TestOutcome(r) ==
    IF r.raised THEN "test_error"
    ELSE IF r.status = 200
    THEN (IF r.json THEN "pass" ELSE "test_error")
    ELSE "test_bad_status"

\* the non-streaming branch taking every answer for a success
BatchOutput_NoStatusTest(r) ==
    IF r.raised \/ ~r.json THEN <<Say("error_communicating")>>
    ELSE IF r.has_response
    THEN <<Say("completed"), Say("response_header"), Say("response")>>
    ELSE <<Say("completed")>>

\* lines 320-346: what the non-streaming branch prints for an answer
BatchOutput(r) ==
    IF r.raised THEN <<Say("error_communicating")>>
    ELSE IF r.status = 200
    THEN (IF ~r.json THEN <<Say("error_communicating")>>
          ELSE IF r.has_response
          THEN <<Say("completed"), Say("response_header"), Say("response")>>
          ELSE <<Say("completed")>>)
    ELSE <<Out("error_status", r.status, ""), Say("response_text")>>

\* A line of the streamed answer: a JSON object with a "response" field,
\* a JSON object without one, JSON that is no object, text that is no JSON,
\* bytes that are not UTF-8, or empty.
Line(kind, text) == [kind |-> kind, text |-> text]

Lines ==
    { Line("object", "x"), Line("object", "y"), Line("object_no_response", ""),
      Line("json_not_object", ""), Line("not_json", ""), Line("not_utf8", ""),
      Line("empty", "") }

\* the bodies a streamed answer can have: up to MaxLines lines
Bodies == UNION { [1..n -> Lines] : n \in 0..MaxLines }

(***************************************************************************)
(* The heuristic token estimators.  A text is a sequence of code points.   *)
(***************************************************************************)
\* longest text the estimators are run on, and longest piece appended
MaxTextLen == 5

MaxAppendLen == 2

\* ' ', '!', '1', 'a', U+4E00 (the first CJK ideograph) and U+4E2D
CodePoints == {32, 33, 49, 97, 19968, 20013}

\* the texts of length lo..hi
TextsOf(lo, hi) == UNION { [1..n -> CodePoints] : n \in lo..hi }

\* str.isspace, str.isdigit, str.isalnum on the model's code points
IsSpace(c) == c = 32

IsDigit(c) == c = 49

IsAlnum(c) == c \in {49, 97, 19968, 20013}

\* len(text.split()): the maximal runs of characters that are no whitespace
WordCount(text) ==
    Cardinality({ i \in 1..Len(text) :
                    ~IsSpace(text[i]) /\ (i = 1 \/ IsSpace(text[i - 1])) })

\* ord(char) > 0x4E00 and ord(char) < 0x9FFF
IsCjk(c) == c > 19968 /\ c < 40959

IsSpecial(c) == ~(IsAlnum(c) \/ IsSpace(c))

\* sum(1 for char in text if ...), lines 28, 31 and 34
CjkChars(text) == Cardinality({ i \in 1..Len(text) : IsCjk(text[i]) })

NumericChars(text) == Cardinality({ i \in 1..Len(text) : IsDigit(text[i]) })

SpecialChars(text) == Cardinality({ i \in 1..Len(text) : IsSpecial(text[i]) })

\* int(x) of the float x = halves / 2: truncation towards zero
IntOfHalves(halves) ==
    IF halves >= 0 THEN halves \div 2 ELSE -((-halves) \div 2)

\* an estimate that takes the special characters off instead of adding them
EstimateQwenTokens_MinusSpecial(text) ==
    IntOfHalves(2 * WordCount(text) + 2 * CjkChars(text)
                + NumericChars(text) - SpecialChars(text))

\* estimate_qwen_tokens(text), large_context_test.py lines 19-40
EstimateQwenTokens(text) ==
    IntOfHalves(2 * WordCount(text) + 2 * CjkChars(text)
                + NumericChars(text) + SpecialChars(text))

\* count_tokens' fallback, ocode.py line 60: len(text) // 4
FallbackTokens(text) == Len(text) \div 4

(***************************************************************************)
(* ollama-lite.py main: inputs and pure parts.                             *)
(***************************************************************************)
\* the largest exit status and the largest signal number of the subprocess
MaxReturnCode == 255

MaxSignal == 15

\* Popen.returncode: an exit status, or -N when signal N ended the process
ReturnCodes == (-MaxSignal)..MaxReturnCode

\* an "except:" that catches everything
HandlerCatches_Bare(exc) == TRUE

\* lines 66-68, "except Exception": SystemExit derives from BaseException
\* only, every other exception the try block raises from Exception
HandlerCatches(exc) == exc # "SystemExit"

\* lines 35-38: the prompt main ends up with ("" when there is none)
PromptOf(arg, pipe, isatty, stdin) ==
    IF pipe \/ ~isatty THEN stdin ELSE arg

VARIABLES
    \* ---- ocode.py main: the context sizer
    token_count,        \* token_count = count_tokens(prompt)
    dynamic_ctx_size,   \* dynamic_ctx_size (0 before it is computed)
    sizer_pc,           \* "idle" | "counted" (line 399 done) | "sized" (405 done)
    last_run,           \* <<token_count, dynamic_ctx_size>> of the previous
                        \* invocation, <<>> when there was none
    \* ---- ocode.py get_directory_content
    tree,               \* the entries below dir_path
    gitignore,          \* the .gitignore at the git root
    unreadable,         \* paths whose read raises
    max_depth,          \* argument max_depth
    max_files,          \* argument max_files
    ignored_patterns,   \* ignored_patterns
    result,             \* result, a list of [kind, path] items
    file_count,         \* file_count
    dirs_to_process,    \* dirs_to_process
    next_dirs,          \* next_dirs
    current_depth,      \* current_depth
    todo_dirs,          \* what "for current_dir in dirs_to_process" has left
    current_dir,        \* current_dir
    todo_entries,       \* what "for entry in sorted(...)" has left
    walk_pc,            \* "idle" | "start" | "while" | "for_dir" | "for_entry"
                        \* | "finish" | "done"
    walk_ret,           \* "none" | "joined" (line 165) | "error_only" (line 163)
    \* ---- ocode.py main and send_query_to_ollama
    target_kind,        \* what args.target is on disk
    stream,             \* args.stream
    main_pc,            \* "idle" | "start" | "read" | "sizing" | "querying"
                        \* | "exited"
    exit_code,          \* what main returned, -1 before it returns
    client_pc,          \* "idle" | "check_version" | "check_tags" | "check_test"
                        \* | "send" | "streaming" | "returned"
    http_log,           \* the requests issued, in order
    answers,            \* what each request of http_log met
    num_ctx,            \* options.num_ctx of the query request, 0 before it
    stream_body,        \* the lines of the streamed answer, as the server
                        \* sends them
    lines_in,           \* the lines of the streamed answer received so far
    printed,            \* standard output, a list of Out items
    \* ---- the token estimators
    text,               \* the text estimated
    estimate,           \* <<estimate_qwen_tokens(text), len(text) // 4>>,
                        \* <<>> before they are computed
    shorter,            \* <<text, estimate>> before the last append, or <<>>
    \* ---- ollama-lite.py main
    lite_args,          \* [prompt, pipe, isatty, stdin]: the arguments and stdin
    lite_pc,            \* "idle" | "start" | "run" | "communicate" | "exited"
    returncode,         \* process.returncode, <<>> while there is none
    lite_exit,          \* the exit code main ended with (sys.exit's argument)
    lite_out            \* what main wrote: a list of "stdout" | "ollama_error"
                        \* | "no_prompt" | "error"

sizerVars == <<token_count, dynamic_ctx_size, sizer_pc, last_run>>

walkArgs == <<tree, gitignore, unreadable, max_depth, max_files>>

walkVars ==
    <<walkArgs, ignored_patterns, result, file_count, dirs_to_process, next_dirs,
      current_depth, todo_dirs, current_dir, todo_entries, walk_pc, walk_ret>>

clientVars ==
    <<target_kind, stream, main_pc, exit_code, client_pc, http_log, answers,
      num_ctx, stream_body, lines_in, printed>>

tokVars == <<text, estimate, shorter>>

liteVars == <<lite_args, lite_pc, returncode, lite_exit, lite_out>>

vars == <<sizerVars, walkVars, clientVars, tokVars, liteVars>>

\* the components a specification does not run
SizerIdle ==
    /\ token_count = 0
    /\ dynamic_ctx_size = 0
    /\ sizer_pc = "idle"
    /\ last_run = <<>>

WalkIdle ==
    /\ tree = {}
    /\ gitignore = [state |-> "absent", lines |-> <<>>]
    /\ unreadable = {}
    /\ max_depth = 0
    /\ max_files = 0
    /\ ignored_patterns = <<>>
    /\ result = <<>>
    /\ file_count = 0
    /\ dirs_to_process = <<>>
    /\ next_dirs = <<>>
    /\ current_depth = 0
    /\ todo_dirs = <<>>
    /\ current_dir = <<>>
    /\ todo_entries = <<>>
    /\ walk_pc = "idle"
    /\ walk_ret = "none"

ClientIdle ==
    /\ target_kind = "file"
    /\ stream = TRUE
    /\ main_pc = "idle"
    /\ exit_code = -1
    /\ client_pc = "idle"
    /\ http_log = <<>>
    /\ answers = <<>>
    /\ num_ctx = 0
    /\ stream_body = <<>>
    /\ lines_in = <<>>
    /\ printed = <<>>

TokIdle ==
    /\ text = <<>>
    /\ estimate = <<>>
    /\ shorter = <<>>

LiteIdle ==
    /\ lite_args = [prompt |-> "", pipe |-> FALSE, isatty |-> TRUE, stdin |-> ""]
    /\ lite_pc = "idle"
    /\ returncode = <<>>
    /\ lite_exit = 0
    /\ lite_out = <<>>

SizerInit ==
    /\ token_count \in 0..MaxTokenCount
    /\ dynamic_ctx_size = 0
    /\ sizer_pc = "counted"
    /\ last_run = <<>>
    /\ WalkIdle
    /\ ClientIdle
    /\ TokIdle
    /\ LiteIdle

\* main, lines 402 and 405
ComputeCtxSize ==
    /\ sizer_pc = "counted"
    /\ dynamic_ctx_size' = DynamicCtxSize(token_count)
    /\ sizer_pc' = "sized"
    /\ UNCHANGED <<token_count, last_run, walkVars, clientVars, tokVars, liteVars>>

\* the tool is run again on a prompt that grew by d estimated tokens
NextInvocation ==
    /\ sizer_pc = "sized"
    /\ \E d \in GrowSteps :
         /\ token_count + d <= MaxTokenCount
         /\ token_count' = token_count + d
    /\ last_run' = <<token_count, dynamic_ctx_size>>
    /\ dynamic_ctx_size' = 0
    /\ sizer_pc' = "counted"
    /\ UNCHANGED <<walkVars, clientVars, tokVars, liteVars>>

SizerNext == ComputeCtxSize \/ NextInvocation

SpecSizer == SizerInit /\ [][SizerNext]_vars

(***************************************************************************)
(* get_directory_content(dir_path, max_depth, max_files), lines 73-165.    *)
(***************************************************************************)
Item(kind, path) == [kind |-> kind, path |-> path]

WalkInit ==
    /\ tree \in Trees
    /\ gitignore \in Gitignores
    /\ unreadable \in Unreadables
    /\ max_depth \in 0..MaxDepthArg
    /\ max_files \in 0..MaxFilesArg
    /\ ignored_patterns = <<>>
    /\ result = <<>>
    /\ file_count = 0
    /\ dirs_to_process = <<>>
    /\ next_dirs = <<>>
    /\ current_depth = 0
    /\ todo_dirs = <<>>
    /\ current_dir = <<>>
    /\ todo_entries = <<>>
    /\ walk_pc = "start"
    /\ walk_ret = "none"
    /\ SizerIdle
    /\ ClientIdle
    /\ TokIdle
    /\ LiteIdle

\* lines 79-97 and 125-126: the patterns are loaded, the walk starts at
\* dir_path; lines 162-163 when the ignore file cannot be read
LoadIgnorePatterns ==
    /\ walk_pc = "start"
    /\ IF gitignore.state = "unreadable"
       THEN /\ walk_pc' = "done"
            /\ walk_ret' = "error_only"
            /\ UNCHANGED <<ignored_patterns, dirs_to_process>>
       ELSE /\ ignored_patterns' = LoadPatterns(gitignore.lines)
            /\ dirs_to_process' = << <<>> >>
            /\ walk_pc' = "while"
            /\ UNCHANGED walk_ret
    /\ UNCHANGED <<walkArgs, result, file_count, next_dirs, current_depth,
                   todo_dirs, current_dir, todo_entries, sizerVars, clientVars, tokVars, liteVars>>

\* the loop condition without the depth test
WhileCondition_NoDepth ==
    dirs_to_process # <<>> /\ file_count < max_files

\* line 128
WhileCondition ==
    dirs_to_process # <<>> /\ current_depth < max_depth /\ file_count < max_files

\* lines 128-129
WhileCheck ==
    /\ walk_pc = "while"
    /\ IF WhileCondition
       THEN /\ next_dirs' = <<>>
            /\ todo_dirs' = dirs_to_process
            /\ walk_pc' = "for_dir"
       ELSE /\ walk_pc' = "finish"
            /\ UNCHANGED <<next_dirs, todo_dirs>>
    /\ UNCHANGED <<walkArgs, ignored_patterns, result, file_count, dirs_to_process,
                   current_depth, current_dir, todo_entries, walk_ret, sizerVars, clientVars, tokVars, liteVars>>

\* lines 131-137 and 153-154: the next directory of the level; its header,
\* then its sorted listing or the marker of the listing's failure
EnterDir ==
    /\ walk_pc = "for_dir"
    /\ todo_dirs # <<>>
    /\ current_dir' = Head(todo_dirs)
    /\ todo_dirs' = Tail(todo_dirs)
    /\ IF Head(todo_dirs) \in unreadable
       THEN /\ result' = result \o <<Item("dir_header", Head(todo_dirs)),
                                     Item("dir_error", Head(todo_dirs))>>
            /\ UNCHANGED <<todo_entries, walk_pc>>
       ELSE /\ result' = Append(result, Item("dir_header", Head(todo_dirs)))
            /\ todo_entries' = Sorted(IterDir(tree, Head(todo_dirs)))
            /\ walk_pc' = "for_entry"
    /\ UNCHANGED <<walkArgs, ignored_patterns, file_count, dirs_to_process,
                   next_dirs, current_depth, walk_ret, sizerVars, clientVars, tokVars, liteVars>>

\* get_file_content(file_path), lines 62-71
FileContent(path) ==
    IF path \in unreadable THEN "error_marker"
    ELSE IF path \in Undecodable THEN "binary_marker"
    ELSE "text"

\* lines 143-149: what a file adds to result
FileItems(e, count, limit) ==
    IF count < limit
    THEN <<Item("file_header", e.path), Item(FileContent(e.path), e.path)>>
    ELSE <<Item("skipped", e.path)>>

\* lines 137-152: one entry of the listing
ProcessEntry ==
    /\ walk_pc = "for_entry"
    /\ todo_entries # <<>>
    /\ LET entry == Head(todo_entries)
       IN  /\ todo_entries' = Tail(todo_entries)
           /\ IF ShouldIgnore(entry, ignored_patterns)
              THEN UNCHANGED <<result, file_count, next_dirs>>
              ELSE IF entry.kind = "file"
              THEN LET items == FileItems(entry, file_count, max_files)
                   IN  /\ result' = result \o items
                       /\ file_count' = IF Len(items) = 2 THEN file_count + 1
                                        ELSE file_count
                       /\ UNCHANGED next_dirs
              ELSE /\ next_dirs' = Append(next_dirs, entry.path)
                   /\ UNCHANGED <<result, file_count>>
    /\ UNCHANGED <<walkArgs, ignored_patterns, dirs_to_process, current_depth,
                   todo_dirs, current_dir, walk_pc, walk_ret, sizerVars, clientVars, tokVars, liteVars>>

\* line 137: the listing is exhausted, back to the loop over the level
LeaveDir ==
    /\ walk_pc = "for_entry"
    /\ todo_entries = <<>>
    /\ walk_pc' = "for_dir"
    /\ UNCHANGED <<walkArgs, ignored_patterns, result, file_count, dirs_to_process,
                   next_dirs, current_depth, todo_dirs, current_dir, todo_entries,
                   walk_ret, sizerVars, clientVars, tokVars, liteVars>>

\* lines 156-157: the level is exhausted
EndLevel ==
    /\ walk_pc = "for_dir"
    /\ todo_dirs = <<>>
    /\ dirs_to_process' = next_dirs
    /\ current_depth' = current_depth + 1
    /\ walk_pc' = "while"
    /\ UNCHANGED <<walkArgs, ignored_patterns, result, file_count, next_dirs,
                   todo_dirs, current_dir, todo_entries, walk_ret, sizerVars, clientVars, tokVars, liteVars>>

\* lines 159-165
Finish ==
    /\ walk_pc = "finish"
    /\ result' = IF file_count >= max_files
                 THEN Append(result, Item("warning", <<>>))
                 ELSE result
    /\ walk_ret' = "joined"
    /\ walk_pc' = "done"
    /\ UNCHANGED <<walkArgs, ignored_patterns, file_count, dirs_to_process,
                   next_dirs, current_depth, todo_dirs, current_dir, todo_entries,
                   sizerVars, clientVars, tokVars, liteVars>>

WalkNext ==
    \/ LoadIgnorePatterns
    \/ WhileCheck
    \/ EnterDir
    \/ ProcessEntry
    \/ LeaveDir
    \/ EndLevel
    \/ Finish

SpecWalk == WalkInit /\ [][WalkNext]_vars

(***************************************************************************)
(* ocode.py main, lines 350-412, and send_query_to_ollama, lines 250-348.  *)
(* Output of debug() is not part of printed (DEBUG_MODE is off).           *)
(***************************************************************************)
MainInit ==
    /\ target_kind \in TargetKinds
    /\ stream \in BOOLEAN
    /\ main_pc = "start"
    /\ exit_code = -1
    /\ client_pc = "idle"
    /\ http_log = <<>>
    /\ answers = <<>>
    /\ num_ctx = 0
    /\ stream_body = <<>>
    /\ lines_in = <<>>
    /\ printed = <<>>
    /\ SizerIdle
    /\ WalkIdle
    /\ TokIdle
    /\ LiteIdle

\* lines 372-395: the target is looked up and its content read
CheckTarget ==
    /\ main_pc = "start"
    /\ IF TargetCheck(target_kind) = "fail"
       THEN /\ printed' = printed \o
                   <<Say("starting"),
                     Say(IF target_kind = "missing" THEN "target_missing"
                         ELSE "target_not_file_or_dir")>>
            /\ exit_code' = 1
            /\ main_pc' = "exited"
       ELSE /\ printed' = printed \o <<Say("starting"), Say("content_read")>>
            /\ main_pc' = "read"
            /\ UNCHANGED exit_code
    /\ UNCHANGED <<target_kind, stream, client_pc, http_log, answers, num_ctx,
                   stream_body, lines_in, sizerVars, walkVars, tokVars, liteVars>>

\* lines 398-399: the prompt is built and its tokens are counted
CountPromptTokens ==
    /\ main_pc = "read"
    /\ token_count' \in TokenSamples
    /\ sizer_pc' = "counted"
    /\ main_pc' = "sizing"
    /\ UNCHANGED <<dynamic_ctx_size, last_run, target_kind, stream, exit_code,
                   client_pc, http_log, answers, num_ctx, stream_body, lines_in,
                   printed, walkVars,
                   tokVars, liteVars>>

\* lines 407-410 and 252-260: send_query_to_ollama is entered
BeginQuery ==
    /\ main_pc = "sizing"
    /\ sizer_pc = "sized"
    /\ printed' = printed \o <<Say("context_size"), Say("prompt_size"), Say("checking")>>
    /\ main_pc' = "querying"
    /\ client_pc' = "check_version"
    /\ UNCHANGED <<target_kind, stream, exit_code, http_log, answers, num_ctx,
                   stream_body, lines_in, sizerVars, walkVars, tokVars, liteVars>>

\* One step of check_ollama_status: the request is issued and met by r;
\* a failed step logs its message, check_ollama_status returns False and
\* send_query_to_ollama logs "not ready" and returns (lines 261-263).
CheckStep(request, r, outcome, next_pc) ==
    /\ http_log' = Append(http_log, request)
    /\ answers' = Append(answers, r)
    /\ IF outcome = "pass"
       THEN /\ client_pc' = next_pc
            /\ printed' = IF next_pc = "send"
                          THEN Append(printed, Say("operational"))
                          ELSE printed
       ELSE /\ client_pc' = "returned"
            /\ printed' = printed \o <<Out(outcome, r.status, ""), Say("not_ready")>>
    /\ UNCHANGED <<target_kind, stream, main_pc, exit_code, num_ctx, stream_body, lines_in,
                   sizerVars, walkVars, tokVars, liteVars>>

\* lines 172-185
CheckVersion ==
    /\ client_pc = "check_version"
    /\ \E r \in VersionAnswers :
          CheckStep("GET /version", r, VersionOutcome(r), "check_tags")

\* lines 188-209
CheckTags ==
    /\ client_pc = "check_tags"
    /\ \E r \in TagsAnswers :
          CheckStep("GET /tags", r, TagsOutcome(r), "check_test")

\* lines 212-231
CheckTestPrompt ==
    /\ client_pc = "check_test"
    /\ \E r \in GenerateAnswers :
          CheckStep("POST /generate test", r, TestOutcome(r), "send")

\* line 266
CtxSize(dynamic) == IF dynamic # 0 THEN dynamic ELSE MAX_CONTEXT_SIZE

\* the client sending the query again after an error or a refusal
PcAfterQuery_Retry(r, streaming) ==
    IF r.raised \/ r.status # 200 THEN "send"
    ELSE IF streaming THEN "streaming"
    ELSE "returned"

\* where send_query_to_ollama goes once the query request is answered by r:
\* into the loop over the lines of a streamed answer (line 306), else to its
\* end by the return of line 303, the handler of lines 345-346 or the end
\* of the non-streaming branch
PcAfterQuery(r, streaming) ==
    IF r.raised \/ r.status # 200 THEN "returned"
    ELSE IF streaming THEN "streaming"
    ELSE "returned"

\* lines 265-303, stream: the header is printed, the request is issued
SendStreamQuery ==
    /\ client_pc = "send"
    /\ stream
    /\ num_ctx' = CtxSize(dynamic_ctx_size)
    /\ http_log' = Append(http_log, "POST /generate query")
    /\ \E r \in GenerateAnswers :
          /\ answers' = Append(answers, r)
          /\ client_pc' = PcAfterQuery(r, TRUE)
          /\ IF r.raised
             THEN /\ printed' = printed \o
                        <<Say("streaming"), Say("response_header"),
                          Out("error_communicating", 0, "ConnectionError"),
                          Say("processing_complete")>>
                  /\ UNCHANGED stream_body
             ELSE IF r.status # 200
             THEN /\ printed' = printed \o
                        <<Say("streaming"), Say("response_header"),
                          Out("error_status", r.status, "")>>
                  /\ UNCHANGED stream_body
             ELSE /\ printed' = printed \o <<Say("streaming"), Say("response_header")>>
                  /\ stream_body' \in Bodies
    /\ UNCHANGED <<target_kind, stream, main_pc, exit_code, lines_in, sizerVars,
                   walkVars, tokVars, liteVars>>

\* lines 265-287 and 318-348, no stream
SendBatchQuery ==
    /\ client_pc = "send"
    /\ ~stream
    /\ num_ctx' = CtxSize(dynamic_ctx_size)
    /\ http_log' = Append(http_log, "POST /generate query")
    /\ \E r \in GenerateAnswers :
          /\ answers' = Append(answers, r)
          /\ client_pc' = PcAfterQuery(r, FALSE)
          /\ printed' = printed \o <<Say("waiting")>> \o BatchOutput(r)
                            \o <<Say("processing_complete")>>
    /\ UNCHANGED <<target_kind, stream, main_pc, exit_code, stream_body, lines_in, sizerVars, walkVars, tokVars, liteVars>>

\* lines 306-312: what the loop body does with a line
LineEffect(l) ==
    IF l.kind = "empty" THEN "skip"
    ELSE IF l.kind = "object" THEN "print"
    ELSE IF l.kind = "object_no_response" THEN "print_nothing"
    ELSE IF l.kind = "not_json" THEN "skip"
    ELSE "abort"

\* the exception that leaves the loop on a line whose effect is "abort":
\* chunk.get on a JSON value that is no object, or json.loads on bytes that
\* are not UTF-8; neither is a json.JSONDecodeError
LineException(l) ==
    IF l.kind = "not_utf8" THEN "UnicodeDecodeError" ELSE "AttributeError"

\* lines 306-312, and 345-348 when the line makes chunk.get raise
StreamLine ==
    /\ client_pc = "streaming"
    /\ Len(lines_in) < Len(stream_body)
    /\ LET l == stream_body[Len(lines_in) + 1]
       IN  /\ lines_in' = Append(lines_in, l)
           /\ IF LineEffect(l) = "abort"
              THEN /\ printed' = printed \o
                         <<Out("error_communicating", 0, LineException(l)),
                           Say("processing_complete")>>
                   /\ client_pc' = "returned"
              ELSE /\ printed' = IF LineEffect(l) = "skip" THEN printed
                                 ELSE Append(printed, Out("chunk", 0, l.text))
                   /\ UNCHANGED client_pc
    /\ UNCHANGED <<target_kind, stream, main_pc, exit_code, http_log, answers,
                   num_ctx, stream_body, sizerVars, walkVars, tokVars, liteVars>>

\* lines 306 and 345-348: the connection breaks while the answer is read
StreamBreaks ==
    /\ client_pc = "streaming"
    /\ printed' = printed \o
           <<Out("error_communicating", 0, "ConnectionError"), Say("processing_complete")>>
    /\ client_pc' = "returned"
    /\ UNCHANGED <<target_kind, stream, main_pc, exit_code, http_log, answers,
                   num_ctx, stream_body, lines_in, sizerVars, walkVars, tokVars, liteVars>>

\* lines 314-316 and 348: the stream ends
StreamEnds ==
    /\ client_pc = "streaming"
    /\ lines_in = stream_body
    /\ printed' = printed \o
           <<Say("newline"), Say("streaming_completed"), Say("processing_complete")>>
    /\ client_pc' = "returned"
    /\ UNCHANGED <<target_kind, stream, main_pc, exit_code, http_log, answers,
                   num_ctx, stream_body, lines_in, sizerVars, walkVars, tokVars, liteVars>>

\* line 412
ReturnFromMain ==
    /\ main_pc = "querying"
    /\ client_pc = "returned"
    /\ exit_code' = 0
    /\ main_pc' = "exited"
    /\ UNCHANGED <<target_kind, stream, client_pc, http_log, answers, num_ctx,
                   stream_body, lines_in, printed, sizerVars, walkVars, tokVars, liteVars>>

MainNext ==
    \/ CheckTarget
    \/ CountPromptTokens
    \/ ComputeCtxSize
    \/ BeginQuery
    \/ CheckVersion
    \/ CheckTags
    \/ CheckTestPrompt
    \/ SendStreamQuery
    \/ SendBatchQuery
    \/ StreamLine
    \/ StreamBreaks
    \/ StreamEnds
    \/ ReturnFromMain

SpecMain == MainInit /\ [][MainNext]_vars

(***************************************************************************)
(* The token estimators applied to a text that grows.                      *)
(***************************************************************************)
Estimates(t) == <<EstimateQwenTokens(t), FallbackTokens(t)>>

TokInit ==
    /\ text \in TextsOf(0, MaxTextLen)
    /\ estimate = <<>>
    /\ shorter = <<>>
    /\ SizerIdle
    /\ WalkIdle
    /\ ClientIdle
    /\ LiteIdle

\* estimate_qwen_tokens(text) and the fallback of count_tokens(text)
EstimateText ==
    /\ estimate = <<>>
    /\ estimate' = Estimates(text)
    /\ UNCHANGED <<text, shorter, sizerVars, walkVars, clientVars, liteVars>>

\* more words are written after the text (generate_test_file, lines 47-63)
AppendWords ==
    /\ estimate # <<>>
    /\ \E w \in TextsOf(1, MaxAppendLen) :
          /\ Len(text) + Len(w) <= MaxTextLen
          /\ text' = text \o w
    /\ shorter' = <<text, estimate>>
    /\ estimate' = <<>>
    /\ UNCHANGED <<sizerVars, walkVars, clientVars, liteVars>>

TokNext == EstimateText \/ AppendWords

SpecTok == TokInit /\ [][TokNext]_vars

(***************************************************************************)
(* ollama-lite.py main, lines 26-68.                                       *)
(***************************************************************************)
LiteInit ==
    /\ lite_args \in [prompt : {"", "p"}, pipe : BOOLEAN, isatty : BOOLEAN,
                      stdin : {"", "q"}]
    /\ lite_pc = "start"
    /\ returncode = <<>>
    /\ lite_exit = 0
    /\ lite_out = <<>>
    /\ SizerIdle
    /\ WalkIdle
    /\ ClientIdle
    /\ TokIdle

\* lines 27-42: the prompt is taken from the arguments or from stdin
GetPrompt ==
    /\ lite_pc = "start"
    /\ IF PromptOf(lite_args.prompt, lite_args.pipe, lite_args.isatty,
                   lite_args.stdin) = ""
       THEN /\ lite_out' = Append(lite_out, "no_prompt")
            /\ lite_exit' = 1
            /\ lite_pc' = "exited"
       ELSE /\ lite_pc' = "run"
            /\ UNCHANGED <<lite_out, lite_exit>>
    /\ UNCHANGED <<lite_args, returncode, sizerVars, walkVars, clientVars, tokVars>>

\* What raising exc inside the try block of lines 45-68 ends in, out what
\* was written before it and code the argument of sys.exit when exc is a
\* SystemExit: the handler's message and exit 1, or the exit asked for.
RaiseInTry(out, exc, code) ==
    IF HandlerCatches(exc)
    THEN /\ lite_out' = Append(out, "error")
         /\ lite_exit' = 1
    ELSE /\ lite_out' = out
         /\ lite_exit' = code

\* lines 46-56: the subprocess is started, or Popen raises OSError
StartOllama ==
    /\ lite_pc = "run"
    /\ \/ /\ lite_pc' = "communicate"
          /\ UNCHANGED <<lite_out, lite_exit>>
       \/ /\ RaiseInTry(lite_out, "OSError", 1)
          /\ lite_pc' = "exited"
    /\ UNCHANGED <<lite_args, returncode, sizerVars, walkVars, clientVars, tokVars>>

\* lines 58-64: the subprocess ends with return code r; a non-zero r is
\* reported on stderr and sys.exit(r) raises SystemExit inside the try
ProcessEnds ==
    /\ lite_pc = "communicate"
    /\ \E r \in ReturnCodes :
          /\ returncode' = <<r>>
          /\ IF r # 0
             THEN RaiseInTry(Append(lite_out, "ollama_error"), "SystemExit", r)
             ELSE /\ lite_out' = Append(lite_out, "stdout")
                  /\ lite_exit' = 0
    /\ lite_pc' = "exited"
    /\ UNCHANGED <<lite_args, sizerVars, walkVars, clientVars, tokVars>>

LiteNext == GetPrompt \/ StartOllama \/ ProcessEnds

SpecLite == LiteInit /\ [][LiteNext]_vars

(***************************************************************************)
(* Claims about the context sizer.                                         *)
(***************************************************************************)
RECURSIVE IsPow2(_)
IsPow2(n) == n = 1 \/ (n > 1 /\ n % 2 = 0 /\ IsPow2(n \div 2))

\* the smallest power of two >= m, stated without bit_length
LeastPow2AtLeast(m) ==
    CHOOSE p \in {2 ^ k : k \in 0..20} :
        /\ p >= m
        /\ \A q \in {2 ^ k : k \in 0..20} : q >= m => p <= q

\* C1: the context size handed to send_query_to_ollama never exceeds
\* MAX_CONTEXT_SIZE, whatever the estimated token count.
C1_CtxNeverAboveMax ==
    sizer_pc = "sized" => dynamic_ctx_size <= MAX_CONTEXT_SIZE

\* C2: the context size is max(4096, P), P the smallest power of two
\* >= min(t + 1000, 128000); so it is a power of two, at least 4096, and
\* 8192 for t = 5000.
C2_CtxIsFlooredPow2 ==
    sizer_pc = "sized" =>
        /\ dynamic_ctx_size =
             Max(4096, LeastPow2AtLeast(Min(token_count + 1000, 128000)))
        /\ IsPow2(dynamic_ctx_size)
        /\ dynamic_ctx_size >= 4096
        /\ (token_count = 5000 => dynamic_ctx_size = 8192)

C2_Witness ==
    /\ sizer_pc = "sized"
    /\ token_count = 5000
    /\ dynamic_ctx_size = 8192

\* C3: the sizer is monotonic: a later invocation with at least as many
\* estimated tokens gets at least as large a context size.
C3_SizerMonotonic ==
    (sizer_pc = "sized" /\ last_run # <<>> /\ last_run[1] <= token_count)
        => last_run[2] <= dynamic_ctx_size

C3_Witness ==
    /\ sizer_pc = "sized"
    /\ last_run # <<>>
    /\ last_run[1] < token_count
    /\ last_run[2] < dynamic_ctx_size

(***************************************************************************)
(* Claims about get_directory_content.                                     *)
(***************************************************************************)
BodyKinds == {"text", "binary_marker", "error_marker"}

\* the items of result that are of one of the kinds
ItemsOf(kinds) == { i \in 1..Len(result) : result[i].kind \in kinds }

\* the directory an entry lies in
Parent(path) == SubSeq(path, 1, Len(path) - 1)

\* C4: a directory header is emitted only for directories at depth
\* < max_depth (the root at depth 0), file bodies only for files directly
\* inside such directories, at most max_files bodies in all, and
\* file_count never exceeds max_files in any state of the walk.
C4_DepthAndFileLimits ==
    /\ \A i \in ItemsOf({"dir_header"}) :
          /\ Len(result[i].path) < max_depth
          /\ result[i].path # <<>> => Dir(result[i].path) \in tree
    /\ \A i \in ItemsOf(BodyKinds \cup {"file_header"}) :
          /\ Len(Parent(result[i].path)) < max_depth
          /\ \E e \in tree : e.kind = "file" /\ e.path = result[i].path
          /\ \E j \in 1..(i - 1) : result[j] = Item("dir_header", Parent(result[i].path))
    /\ Cardinality(ItemsOf(BodyKinds)) <= max_files
    /\ Cardinality(ItemsOf(BodyKinds)) = file_count
    /\ file_count <= max_files

\* both limits cut the walk short: a file was skipped at the file limit and
\* a visible directory lies at the depth limit
C4_Witness ==
    /\ walk_pc = "done"
    /\ walk_ret = "joined"
    /\ max_depth > 0
    /\ file_count = max_files
    /\ ItemsOf({"skipped"}) # {}
    /\ ItemsOf(BodyKinds) # {}
    /\ \E e \in tree :
          /\ e.kind = "dir"
          /\ Len(e.path) = max_depth
          /\ \A k \in 1..Len(e.path) :
                ~ShouldIgnore(Dir(SubSeq(e.path, 1, k)), ignored_patterns)

\* the match of a path against a pattern as the ignore rules are stated:
\* a pattern ending in '/' by prefix, one starting with '*' by suffix,
\* any other by substring
RuleMatches(pattern, rel) ==
    IF pattern[Len(pattern)] = "/"
    THEN StartsWith(rel, SubSeq(pattern, 1, Len(pattern) - 1))
    ELSE IF pattern[1] = "*"
    THEN EndsWith(rel, SubSeq(pattern, 2, Len(pattern)))
    ELSE Contains(rel, pattern)

\* the entry at path is hidden or matches a loaded pattern
Excluded(path) ==
    \/ Name(path)[1] = "."
    \/ \E k \in 1..Len(ignored_patterns) : RuleMatches(ignored_patterns[k], RelPath(path))

\* C5: an entry whose name begins with '.' or whose root-relative path
\* matches a loaded ignore pattern never has its file body or directory
\* header emitted, nor has anything reachable only through it; a directory
\* holding one non-ignored file and one hidden file yields exactly one
\* file body.
C5_HiddenAndIgnoredNeverEmitted ==
    /\ \A i \in ItemsOf(BodyKinds \cup {"file_header", "dir_header"}) :
          \A k \in 1..Len(result[i].path) :
              ~Excluded(SubSeq(result[i].path, 1, k))
    /\ ( /\ walk_pc = "done"
         /\ walk_ret = "joined"
         /\ tree = HiddenFile \cup RootFile
         /\ max_depth >= 1
         /\ max_files >= 1
         /\ \A e \in RootFile : ~ShouldIgnore(e, ignored_patterns) )
       => Cardinality(ItemsOf(BodyKinds)) = 1

\* a walk over a tree with hidden and pattern-matched entries that emitted
\* a file body, with a pattern of the '*' kind loaded
C5_Witness ==
    /\ walk_pc = "done"
    /\ ItemsOf(BodyKinds) # {}
    /\ HiddenFile \subseteq tree
    /\ Skipped \subseteq tree
    /\ \E k \in 1..Len(ignored_patterns) : ignored_patterns[k][1] = "*"
    /\ \E e \in tree : ~IsHidden(e.path) /\ Excluded(e.path)

\* the scenario of C5: one included file and one hidden file, one body
C5_ScenarioWitness ==
    /\ walk_pc = "done"
    /\ tree = HiddenFile \cup RootFile
    /\ Cardinality(ItemsOf(BodyKinds)) = 1

\* the directory at path is reached by the walk when its level is processed:
\* no directory on the way to it is ignored or fails to list
Discovered(path) ==
    /\ path # <<>> => Dir(path) \in tree
    /\ \A k \in 1..Len(path) :
          /\ ~ShouldIgnore(Dir(SubSeq(path, 1, k)), ignored_patterns)
          /\ SubSeq(path, 1, k - 1) \notin unreadable

HasHeader(path) == \E i \in ItemsOf({"dir_header"}) : result[i].path = path

\* every read failure met by the walk is an inline marker right after the
\* header of the directory or file that failed
FailuresAreInlineMarkers ==
    /\ \A i \in ItemsOf({"dir_header"}) :
          result[i].path \in unreadable =>
              /\ i < Len(result)
              /\ result[i + 1] = Item("dir_error", result[i].path)
    /\ \A i \in ItemsOf({"file_header"}) :
          result[i].path \in unreadable =>
              /\ i < Len(result)
              /\ result[i + 1] = Item("error_marker", result[i].path)

\* a level that was begun is processed whole, and the level below a failed
\* directory is processed unless a limit ends the walk
TraversalContinues ==
    \A d \in {<<>>} \cup { e.path : e \in { x \in tree : x.kind = "dir" } } :
        Discovered(d) =>
            /\ (\E i \in ItemsOf({"dir_header"}) : Len(result[i].path) = Len(d))
                   => HasHeader(d)
            /\ (/\ ItemsOf({"dir_error"}) # {}
                /\ Len(d) < max_depth
                /\ file_count < max_files) => HasHeader(d)

\* C12: a read failure on one file or one directory is recorded as an
\* inline marker and does not abort the traversal: every other directory of
\* the same level and every subdirectory already discovered is still
\* processed, subject to the depth and file limits, and the function
\* returns the aggregated output rather than only an error.
C12_ReadFailureDoesNotAbort ==
    walk_pc = "done" =>
        /\ walk_ret = "joined"
        /\ FailuresAreInlineMarkers
        /\ TraversalContinues

(***************************************************************************)
(* Claims about main and the query client.                                 *)
(***************************************************************************)
\* standard output holds an item with the tag
Printed(tag) == \E i \in 1..Len(printed) : printed[i].tag = tag

\* C6: run on a target path that does not exist, main returns exit code 1
\* and issues no HTTP request of any kind.
C6_MissingTargetExitsOneNoHttp ==
    target_kind = "missing" =>
        /\ http_log = <<>>
        /\ main_pc = "exited" => exit_code = 1
        /\ main_pc \in {"start", "exited"}

C6_Witness ==
    /\ target_kind = "missing"
    /\ main_pc = "exited"
    /\ exit_code = 1
    /\ Printed("target_missing")

\* what the pre-flight checks are, in order, and the messages of each
PreflightRequests == <<"GET /version", "GET /tags", "POST /generate test">>

PreflightMessages ==
    << {"version_error", "version_bad_status"},
       {"tags_error", "tags_bad_status", "model_missing"},
       {"test_error", "test_bad_status"} >>

\* check i, met by answer r, failed or raised
CheckFailed(i, r) ==
    \/ r.raised
    \/ r.status # 200
    \/ ~r.json
    \/ i = 2 /\ ~r.listed

\* C7: the query's generate request is issued only after GET /version,
\* GET /tags (listing the model) and the test POST /generate have passed
\* in that order; once a check fails or raises, no later check and no
\* query is sent, and a message naming the failed check is printed.
C7_QueryOnlyAfterPreflight ==
    /\ \A i \in 1..Len(http_log) :
          /\ i <= 3 => http_log[i] = PreflightRequests[i]
          /\ i > 3 => i = 4 /\ http_log[i] = "POST /generate query"
          /\ i > 1 => \A k \in 1..Min(i - 1, 3) :
                         /\ ~CheckFailed(k, answers[k])
                         /\ answers[k].status = 200
    /\ \A i \in 1..Min(Len(http_log), 3) :
          CheckFailed(i, answers[i]) =>
              /\ Len(http_log) = i
              /\ client_pc = "returned"
              /\ \E m \in PreflightMessages[i] : Printed(m)
              /\ \A k \in 1..3 : k # i => \A m \in PreflightMessages[k] : ~Printed(m)
              /\ Printed("not_ready")

\* the model is not listed: the test prompt and the query are never sent
C7_Witness ==
    /\ main_pc = "exited"
    /\ Len(http_log) = 2
    /\ ~answers[1].raised /\ answers[2].status = 200 /\ answers[2].json
    /\ ~answers[2].listed
    /\ Printed("model_missing")

\* all three checks passed and the query was sent
C7_WitnessSent ==
    /\ Len(http_log) = 4
    /\ http_log[4] = "POST /generate query"

\* the query request was answered, without streaming, by a status that is
\* not 200
BatchQueryRefused ==
    /\ ~stream
    /\ Len(http_log) = 4
    /\ ~answers[4].raised
    /\ answers[4].status # 200

\* C8 as stated: without streaming, a query answered with HTTP 500 (any
\* status but 200) has the error reported with its status code, and no
\* response text is printed.
C8_NoResponseTextOnError ==
    BatchQueryRefused =>
        /\ \E i \in 1..Len(printed) :
              printed[i] = Out("error_status", answers[4].status, "")
        /\ ~Printed("response_header")
        /\ ~Printed("response")
        /\ ~Printed("response_text")

\* C8 as the code has it: the error is reported with its status code, the
\* body of the error answer (response.text) is printed after it, and
\* neither the "=== Ollama Response ===" header nor a generated response is.
C8_ErrorStatusAndBodyPrinted ==
    BatchQueryRefused =>
        /\ \E i \in 1..(Len(printed) - 1) :
              /\ printed[i] = Out("error_status", answers[4].status, "")
              /\ printed[i + 1] = Say("response_text")
        /\ ~Printed("response_header")
        /\ ~Printed("response")
        /\ ~Printed("error_communicating")

C8_Witness ==
    /\ BatchQueryRefused
    /\ answers[4].status = 500
    /\ main_pc = "exited"
    /\ exit_code = 0

(***************************************************************************)
(* Claims about the token estimators.                                      *)
(***************************************************************************)
\* C9: the heuristic estimators (estimate_qwen_tokens and the len // 4
\* fallback of count_tokens) return a non-negative integer, and the
\* estimate of a text followed by more words is at least the estimate of
\* the text.
C9_EstimateNonNegativeMonotone ==
    estimate # <<>> =>
        /\ \A k \in 1..2 : estimate[k] \in Nat
        /\ shorter # <<>> => \A k \in 1..2 : shorter[2][k] <= estimate[k]

\* words were appended after a separator and both estimates grew
C9_Witness ==
    /\ estimate # <<>>
    /\ shorter # <<>>
    /\ Len(shorter[1]) > 0
    /\ Len(text) > Len(shorter[1])
    /\ shorter[2][1] < estimate[1]
    /\ shorter[2][2] < estimate[2]

(***************************************************************************)
(* Claims about ollama-lite.py.                                            *)
(***************************************************************************)
Wrote(what) == \E i \in 1..Len(lite_out) : lite_out[i] = what

\* C10: when the subprocess ends with a non-zero return code r the tool
\* exits with exactly r (the exit is not turned into 1 by the exception
\* handler) and the subprocess's standard output is not printed; when it
\* returns 0 its standard output is printed.
C10_ReturnCodePropagated ==
    (lite_pc = "exited" /\ returncode # <<>>) =>
        /\ returncode[1] # 0 =>
              /\ lite_exit = returncode[1]
              /\ ~Wrote("stdout")
              /\ ~Wrote("error")
        /\ returncode[1] = 0 => Wrote("stdout") /\ lite_exit = 0

\* the subprocess ended with a return code that is neither 0 nor 1
C10_Witness ==
    /\ lite_pc = "exited"
    /\ returncode # <<>>
    /\ returncode[1] > 1
    /\ lite_exit = returncode[1]
    /\ Wrote("ollama_error")

\* the 'response' fields of the well-formed fragments of a body, in arrival
\* order (a fragment without the field contributes the empty string)
ResponseFields(body) ==
    LET wellFormed == SelectSeq(body, LAMBDA l : l.kind = "object")
    IN  [i \in 1..Len(wellFormed) |-> wellFormed[i].text]

\* the response text printed so far, as the sequence of its non-empty pieces
PrintedResponse ==
    LET chunks == SelectSeq(printed, LAMBDA o : o.tag = "chunk" /\ o.text # "")
    IN  [i \in 1..Len(chunks) |-> chunks[i].text]

\* a streaming query was answered with status 200 and the connection did
\* not fail while the body of non-empty lines was read
StreamedWithoutNetworkError ==
    /\ stream
    /\ client_pc = "returned"
    /\ Len(answers) = 4
    /\ ~answers[4].raised
    /\ answers[4].status = 200
    /\ \A i \in 1..Len(stream_body) : stream_body[i].kind # "empty"
    /\ \A i \in 1..Len(printed) :
          printed[i].tag = "error_communicating" => printed[i].text # "ConnectionError"

\* C11: in streaming mode, for every sequence of non-empty response lines,
\* malformed fragments are skipped and streaming continues: when the query
\* has returned, the printed response is exactly the 'response' fields of
\* the well-formed fragments in arrival order, so every well-formed fragment
\* after a malformed one is printed.
C11_MalformedSkippedStreamContinues ==
    StreamedWithoutNetworkError => PrintedResponse = ResponseFields(stream_body)

\* the positions of the query request among the requests issued
QueryRequests == { i \in 1..Len(http_log) : http_log[i] = "POST /generate query" }

\* the answer met a network error or carried a non-success status
Refused(r) == r.raised \/ r.status # 200

\* C13: once the query request has met a network error or a non-success
\* status, no further HTTP request is issued and the client is in its
\* terminal state with the error reported; the query request is sent at
\* most once per invocation; the client is also in its terminal state once
\* the response stream has ended or broken.
C13_NoRetryAfterFailure ==
    /\ Cardinality(QueryRequests) <= 1
    /\ Len(answers) = Len(http_log)
    /\ \A i \in QueryRequests :
          /\ i = Len(http_log)
          /\ Refused(answers[i]) =>
                /\ client_pc = "returned"
                /\ Printed("error_communicating") \/ Printed("error_status")
    /\ (Printed("streaming_completed") \/ Printed("error_communicating"))
          => client_pc = "returned"
    /\ client_pc = "returned" /\ QueryRequests # {} =>
          \/ Refused(answers[Len(answers)])
          \/ Printed("processing_complete")

\* the streamed query was refused with a status that is not 200, the client
\* returned and main ended without another request
C13_Witness ==
    /\ stream
    /\ main_pc = "exited"
    /\ client_pc = "returned"
    /\ QueryRequests = {4}
    /\ ~answers[4].raised
    /\ answers[4].status = 500
    /\ Len(http_log) = 4

\* the query met a network error without streaming
C13_WitnessNetworkError ==
    /\ ~stream
    /\ main_pc = "exited"
    /\ QueryRequests = {4}
    /\ answers[4].raised
    /\ Printed("error_communicating")

=============================================================================
